---- MODULE Spec2Model ----
(***************************************************************************)
(* Market data service: provider dispatch and fallback                     *)
(* (services/marketDataService.js), request validation                     *)
(* (controllers/marketDataController.js), the historical adapters and the  *)
(* indicator functions.                                                    *)
(*                                                                         *)
(* An async method runs atomically up to its next await; the only await    *)
(* points are the upstream HTTP calls, so one request is a sequence of     *)
(* steps: handler entry (validation, primary adapter call issued), then    *)
(* one step per settled upstream call.                                     *)
(***************************************************************************)
EXTENDS Integers, Sequences, FiniteSets, TLC

VARIABLES defaultProvider, setResult, reqs, upstream, series, chain, closes,
          macd, emaResult, rsiResult, indicators

vars == <<defaultProvider, setResult, reqs, upstream, series, chain, closes,
          macd, emaResult, rsiResult, indicators>>

routerVars == <<defaultProvider, setResult, reqs>>
histVars == <<upstream, series>>
optVars == <<chain>>
indVars == <<closes, macd, emaResult, rsiResult, indicators>>

----------------------------------------------------------------------------
(* Bounds *)

NumReq == 1          \* request slots
MaxCalls == 3        \* adapter calls modelled per request (the recursion is unbounded)

----------------------------------------------------------------------------
(* Values *)

UNDEF == "undefined"

Providers == {"finnhub", "alphavantage", "polygon"}

\* provider ids a caller may send: none, the three known ones, an unknown one
ProviderArgs == Providers \cup {UNDEF, "yahoo"}

Symbols == {UNDEF, "", "AAPL"}
Dates == {UNDEF, "2023-01-01"}

Handlers == {"quote", "profile", "historical", "options", "indicators"}

ReqIds == 1..NumReq

\* !x on a query-string value
Falsy(v) == v = UNDEF \/ v = ""

\* providers whose catalog entry lists the operation
Capable(op) == IF op = "options" THEN {"finnhub", "polygon"} ELSE Providers

\* the service method a controller handler calls
ServiceOp(handler) == IF handler = "indicators" THEN "historical" ELSE handler

NoFallback == "throw"

----------------------------------------------------------------------------
(* Service: the switch of each method, and the test of its catch block *)

getQuoteSwitch(provider) ==
  CASE provider = "finnhub" -> "finnhub"
    [] provider = "alphavantage" -> "alphavantage"
    [] provider = "polygon" -> "polygon"
    [] OTHER -> "finnhub"

getCompanyProfileSwitch(provider) ==
  CASE provider = "finnhub" -> "finnhub"
    [] provider = "alphavantage" -> "alphavantage"
    [] provider = "polygon" -> "polygon"
    [] OTHER -> "finnhub"

getHistoricalDataSwitch(provider) ==
  CASE provider = "finnhub" -> "finnhub"
    [] provider = "alphavantage" -> "alphavantage"
    [] provider = "polygon" -> "polygon"
    [] OTHER -> "finnhub"

getOptionsChainSwitchAlpha(provider) ==
  CASE provider = "finnhub" -> "finnhub"
    [] provider = "alphavantage" -> "alphavantage"
    [] provider = "polygon" -> "polygon"
    [] OTHER -> "finnhub"

getOptionsChainSwitch(provider) ==
  CASE provider = "finnhub" -> "finnhub"
    [] provider = "polygon" -> "polygon"
    [] OTHER -> "finnhub"

getQuoteCatchPolygon(provider, dp) ==
  IF provider = dp
    THEN (IF provider = "finnhub" THEN "polygon" ELSE "finnhub")
    ELSE NoFallback

\* the fallback provider, or NoFallback when the error is rethrown;
\* dp is this.defaultProvider as read in the catch block
getQuoteCatch(provider, dp) ==
  IF provider = dp
    THEN (IF provider = "finnhub" THEN "alphavantage" ELSE "finnhub")
    ELSE NoFallback

getCompanyProfileCatch(provider, dp) ==
  IF provider = dp
    THEN (IF provider = "finnhub" THEN "alphavantage" ELSE "finnhub")
    ELSE NoFallback

getHistoricalDataCatchAlways(provider, dp) ==
  IF provider = "finnhub" THEN "alphavantage" ELSE "finnhub"

getHistoricalDataCatch(provider, dp) ==
  IF provider = dp
    THEN (IF provider = "finnhub" THEN "alphavantage" ELSE "finnhub")
    ELSE NoFallback

getOptionsChainCatchUnified(provider, dp) ==
  IF provider = dp
    THEN (IF provider = "finnhub" THEN "alphavantage" ELSE "finnhub")
    ELSE NoFallback

getOptionsChainCatch(provider, dp) ==
  IF provider = dp /\ provider # "polygon" THEN "polygon" ELSE NoFallback

SwitchAdapter(op, provider) ==
  CASE op = "quote" -> getQuoteSwitch(provider)
    [] op = "profile" -> getCompanyProfileSwitch(provider)
    [] op = "historical" -> getHistoricalDataSwitch(provider)
    [] op = "options" -> getOptionsChainSwitch(provider)

CatchFallback(op, provider, dp) ==
  CASE op = "quote" -> getQuoteCatch(provider, dp)
    [] op = "profile" -> getCompanyProfileCatch(provider, dp)
    [] op = "historical" -> getHistoricalDataCatch(provider, dp)
    [] op = "options" -> getOptionsChainCatch(provider, dp)

\* provider = this.defaultProvider  (default parameter: applies to undefined only)
ArgOrDefault(arg, dp) == IF arg = UNDEF THEN dp ELSE arg

----------------------------------------------------------------------------
(* Requests *)

IdleReq ==
  [pc |-> "idle", handler |-> "none", symbol |-> UNDEF, from |-> UNDEF,
   to |-> UNDEF, qprovider |-> UNDEF, provider |-> UNDEF, dflt0 |-> "none",
   svcCalls |-> 0, calls |-> <<>>, responses |-> <<>>]

Call(adapter) == [adapter |-> adapter, outcome |-> "pending"]

\* res.status(s).json(...): call = index of the adapter call whose result
\* (status 200) or whose error (status 500) the body carries
Response(status, message, source, call) ==
  [status |-> status, message |-> message, source |-> source, call |-> call]

FailMessage(handler) ==
  CASE handler = "quote" -> "Failed to fetch quote data"
    [] handler = "profile" -> "Failed to fetch company profile"
    [] handler = "historical" -> "Failed to fetch historical data"
    [] handler = "options" -> "Failed to fetch options chain"
    [] handler = "indicators" -> "Failed to calculate indicators"

\* return res.status(400).json({message}): the provider parameter and the
\* service are not touched
Reject400(handler, symbol, from, to, message) ==
  [IdleReq EXCEPT !.pc = "done", !.handler = handler, !.symbol = symbol,
                  !.from = from, !.to = to,
                  !.responses = <<Response(400, message, "", 0)>>]

\* await this.marketDataService.<op>(symbol, ..., provider): the service
\* method binds its provider parameter, enters the switch and issues the
\* adapter's upstream call
CallService(handler, symbol, from, to, provider) ==
  LET p == ArgOrDefault(provider, defaultProvider)
  IN [IdleReq EXCEPT !.pc = "await", !.handler = handler, !.symbol = symbol,
                     !.from = from, !.to = to, !.qprovider = provider,
                     !.provider = p, !.dflt0 = defaultProvider,
                     !.svcCalls = 1,
                     !.calls = <<Call(SwitchAdapter(ServiceOp(handler), p))>>]

----------------------------------------------------------------------------
(* Actions: service configuration *)

setDefaultProviderUnchecked(provider) ==
  /\ defaultProvider' = provider
  /\ setResult' = [arg |-> provider, outcome |-> "set"]
  /\ UNCHANGED <<reqs, histVars, optVars, indVars>>

\* setResult: the argument and the outcome of the latest assignment
setDefaultProvider(provider) ==
  /\ IF provider \in {"finnhub", "alphavantage", "polygon"}
       THEN /\ defaultProvider' = provider
            /\ setResult' = [arg |-> provider, outcome |-> "set"]
       ELSE /\ defaultProvider' = defaultProvider
            /\ setResult' = [arg |-> provider, outcome |-> "throw"]
  /\ UNCHANGED <<reqs, histVars, optVars, indVars>>

SetDefaultProvider ==
  \E provider \in Providers \cup {"yahoo"} : setDefaultProvider(provider)

\* configuration is applied while no request is in flight
NoneInFlight == \A r \in ReqIds : reqs[r].pc # "await"

ConfigureDefaultProvider ==
  /\ NoneInFlight
  /\ SetDefaultProvider

----------------------------------------------------------------------------
(* Actions: controller handlers *)

\* the routes in the order the router registers them
Routes == <<"quote", "profile", "historical", "options", "indicators">>

RouteIndex(handler) == CHOOSE i \in DOMAIN Routes : Routes[i] = handler

\* Express runs the handler for a new request.  Request slots are
\* interchangeable: the request takes an idle slot that keeps the slots in
\* use in route order, which leaves out only renumberings of an execution.
NewRequest(r, handler) ==
  /\ reqs[r].pc = "idle"
  /\ \A s \in ReqIds \ {r} :
       reqs[s].pc # "idle" =>
         IF s < r THEN RouteIndex(reqs[s].handler) <= RouteIndex(handler)
                  ELSE RouteIndex(handler) <= RouteIndex(reqs[s].handler)

ControllerGetQuote(r) ==
  /\ NewRequest(r, "quote")
  /\ \E symbol \in Symbols, provider \in ProviderArgs :
       reqs' = [reqs EXCEPT ![r] =
         IF Falsy(symbol)
           THEN Reject400("quote", symbol, UNDEF, UNDEF,
                          "Symbol parameter is required")
           ELSE CallService("quote", symbol, UNDEF, UNDEF, provider)]
  /\ UNCHANGED <<defaultProvider, setResult, histVars, optVars, indVars>>

ControllerGetCompanyProfile(r) ==
  /\ NewRequest(r, "profile")
  /\ \E symbol \in Symbols, provider \in ProviderArgs :
       reqs' = [reqs EXCEPT ![r] =
         IF Falsy(symbol)
           THEN Reject400("profile", symbol, UNDEF, UNDEF,
                          "Symbol parameter is required")
           ELSE CallService("profile", symbol, UNDEF, UNDEF, provider)]
  /\ UNCHANGED <<defaultProvider, setResult, histVars, optVars, indVars>>

ControllerGetHistoricalData(r) ==
  /\ NewRequest(r, "historical")
  /\ \E symbol \in Symbols, from \in Dates, to \in Dates,
        provider \in ProviderArgs :
       reqs' = [reqs EXCEPT ![r] =
         IF Falsy(symbol)
           THEN Reject400("historical", symbol, from, to,
                          "Symbol parameter is required")
           ELSE IF Falsy(from) \/ Falsy(to)
             THEN Reject400("historical", symbol, from, to,
                            "From and to date parameters are required")
             ELSE CallService("historical", symbol, from, to, provider)]
  /\ UNCHANGED <<defaultProvider, setResult, histVars, optVars, indVars>>

ControllerGetOptionsChain(r) ==
  /\ NewRequest(r, "options")
  /\ \E symbol \in Symbols, provider \in ProviderArgs :
       reqs' = [reqs EXCEPT ![r] =
         IF Falsy(symbol)
           THEN Reject400("options", symbol, UNDEF, UNDEF,
                          "Symbol parameter is required")
           ELSE CallService("options", symbol, UNDEF, UNDEF, provider)]
  /\ UNCHANGED <<defaultProvider, setResult, histVars, optVars, indVars>>

ControllerCalculateIndicatorsNoDates(r) ==
  /\ NewRequest(r, "indicators")
  /\ \E symbol \in Symbols, from \in Dates, to \in Dates,
        provider \in ProviderArgs :
       reqs' = [reqs EXCEPT ![r] =
         IF Falsy(symbol)
           THEN Reject400("indicators", symbol, from, to,
                          "Symbol parameter is required")
           ELSE CallService("indicators", symbol, from, to, provider)]
  /\ UNCHANGED <<defaultProvider, setResult, histVars, optVars, indVars>>

ControllerCalculateIndicators(r) ==
  /\ NewRequest(r, "indicators")
  /\ \E symbol \in Symbols, from \in Dates, to \in Dates,
        provider \in ProviderArgs :
       reqs' = [reqs EXCEPT ![r] =
         IF Falsy(symbol)
           THEN Reject400("indicators", symbol, from, to,
                          "Symbol parameter is required")
           ELSE IF Falsy(from) \/ Falsy(to)
             THEN Reject400("indicators", symbol, from, to,
                            "From and to date parameters are required")
             ELSE CallService("indicators", symbol, from, to, provider)]
  /\ UNCHANGED <<defaultProvider, setResult, histVars, optVars, indVars>>

----------------------------------------------------------------------------
(* Actions: an upstream call settles *)

SetOutcome(calls, o) == [calls EXCEPT ![Len(calls)].outcome = o]

\* a switch case that lost its return falls through to the next case
UpstreamResolveFallThrough(r) ==
  LET q == reqs[r]
      k == Len(q.calls)
  IN /\ q.pc = "await"
     /\ IF q.calls[k].adapter = "finnhub" /\ k < MaxCalls
          THEN reqs' = [reqs EXCEPT ![r].calls =
                 Append(SetOutcome(q.calls, "ok"),
                        Call("polygon"))]
          ELSE reqs' = [reqs EXCEPT
                 ![r].pc = "done",
                 ![r].calls = SetOutcome(q.calls, "ok"),
                 ![r].responses = Append(q.responses,
                    Response(200, "", q.calls[k].adapter, k))]
     /\ UNCHANGED <<defaultProvider, setResult, histVars, optVars, indVars>>

\* the adapter returns; the service method returns that value; the handler
\* answers 200 with it
UpstreamResolve(r) ==
  LET q == reqs[r]
      k == Len(q.calls)
  IN /\ q.pc = "await"
     /\ reqs' = [reqs EXCEPT
          ![r].pc = "done",
          ![r].calls = SetOutcome(q.calls, "ok"),
          ![r].responses = Append(q.responses,
             Response(200, "", q.calls[k].adapter, k))]
     /\ UNCHANGED <<defaultProvider, setResult, histVars, optVars, indVars>>

\* a catch block that keeps the first error when the fallback fails too
UpstreamRejectKeepFirst(r) ==
  LET q == reqs[r]
      k == Len(q.calls)
      fb == CatchFallback(ServiceOp(q.handler), q.provider, defaultProvider)
  IN /\ q.pc = "await"
     /\ IF fb = NoFallback
          THEN reqs' = [reqs EXCEPT
                 ![r].pc = "done",
                 ![r].calls = SetOutcome(q.calls, "fail"),
                 ![r].responses = Append(q.responses,
                    Response(500, FailMessage(q.handler), "", 1))]
          ELSE /\ k < MaxCalls
               /\ reqs' = [reqs EXCEPT
                    ![r].provider = fb,
                    ![r].calls = Append(SetOutcome(q.calls, "fail"),
                       Call(SwitchAdapter(ServiceOp(q.handler), fb)))]
     /\ UNCHANGED <<defaultProvider, setResult, histVars, optVars, indVars>>

\* the adapter throws (network error, timeout, malformed payload); the catch
\* block of the service method either calls the method again with the
\* fallback provider or rethrows, and the handler then answers 500
UpstreamReject(r) ==
  LET q == reqs[r]
      k == Len(q.calls)
      fb == CatchFallback(ServiceOp(q.handler), q.provider, defaultProvider)
  IN /\ q.pc = "await"
     /\ IF fb = NoFallback
          THEN reqs' = [reqs EXCEPT
                 ![r].pc = "done",
                 ![r].calls = SetOutcome(q.calls, "fail"),
                 ![r].responses = Append(q.responses,
                    Response(500, FailMessage(q.handler), "", k))]
          ELSE /\ k < MaxCalls
               /\ reqs' = [reqs EXCEPT
                    ![r].provider = fb,
                    ![r].calls = Append(SetOutcome(q.calls, "fail"),
                       Call(SwitchAdapter(ServiceOp(q.handler), fb)))]
     /\ UNCHANGED <<defaultProvider, setResult, histVars, optVars, indVars>>

----------------------------------------------------------------------------
(* Historical adapters: the formatting of an upstream payload.              *)
(* A timestamp (an ISO-8601 string in the code) is represented by the       *)
(* instant it denotes, an integer; toISOString and new Date(string) are     *)
(* order preserving on instants.                                            *)

MaxBars == 3         \* bars in an upstream payload
MaxT == 3            \* upstream epoch values are drawn from 1..MaxT

Prices == {1, 2}

NaN == -1            \* getTime() of an Invalid Date

SeqsUpTo(S, n) == UNION {[1..k -> S] : k \in 0..n}

\* Finnhub candles: parallel arrays t (epoch seconds), c, ...
FinnhubPayloads == SeqsUpTo([t : 1..MaxT, c : Prices], MaxBars)

\* Polygon aggregates: results[i].t (epoch milliseconds), results[i].c, ...
PolygonPayloads == SeqsUpTo([t : 1..MaxT, c : Prices], MaxBars)

\* Alpha Vantage time series: an object keyed by date string, enumerated by
\* for..in in insertion order; the keys of an object are distinct
DateKeys == {"2023-01-02", "2023-01-03", "2023-01-03 00:00:00", "2023-01-04",
             "n/a"}

\* new Date(string).getTime(), in days since 2023-01-01
DateParse(d) ==
  CASE d = "2023-01-01" -> 0
    [] d = "2023-01-02" -> 1
    [] d = "2023-01-03" -> 2
    [] d = "2023-01-03 00:00:00" -> 2
    [] d = "2023-01-04" -> 3
    [] OTHER -> NaN

\* a >= b and a <= b on Date objects: false when either is invalid
DateGe(a, b) == a # NaN /\ b # NaN /\ a >= b
DateLe(a, b) == a # NaN /\ b # NaN /\ a <= b

Injective(f) == \A i, j \in DOMAIN f : i # j => f[i] # f[j]

AlphaVantagePayloads ==
  {p \in SeqsUpTo([date : DateKeys, c : Prices], MaxBars) :
     Injective([i \in DOMAIN p |-> p[i].date])}

WindowDates == {"2023-01-01", "2023-01-03", "2023-01-04"}

Bar(timestamp, close) == [timestamp |-> timestamp, close |-> close]

\* for (i = 0; i < t.length; i++) data.push({timestamp: new Date(t[i] * 1000) ...})
FinnhubFormat(payload) ==
  [i \in DOMAIN payload |-> Bar(payload[i].t * 1000, payload[i].c)]

\* results.map(item => ({timestamp: new Date(item.t) ...}))
PolygonFormat(payload) ==
  [i \in DOMAIN payload |-> Bar(payload[i].t, payload[i].c)]

RECURSIVE AlphaVantageFilter(_, _, _)
\* for (const date in timeSeriesData) if (from <= date && date <= to) push
AlphaVantageFilter(payload, fromDate, toDate) ==
  IF payload = <<>> THEN <<>>
  ELSE LET currentDate == DateParse(Head(payload).date)
           rest == AlphaVantageFilter(Tail(payload), fromDate, toDate)
       IN IF DateGe(currentDate, fromDate) /\ DateLe(currentDate, toDate)
            THEN <<Bar(currentDate, Head(payload).c)>> \o rest
            ELSE rest

RECURSIVE InsertByTimestamp(_, _)
InsertByTimestamp(sorted, bar) ==
  IF sorted = <<>> THEN <<bar>>
  ELSE IF Head(sorted).timestamp <= bar.timestamp
    THEN <<Head(sorted)>> \o InsertByTimestamp(Tail(sorted), bar)
    ELSE <<bar>> \o sorted

RECURSIVE SortByTimestamp(_)
\* data.sort((a, b) => new Date(a.timestamp) - new Date(b.timestamp)): stable
SortByTimestamp(data) ==
  IF data = <<>> THEN <<>>
  ELSE InsertByTimestamp(SortByTimestamp(SubSeq(data, 1, Len(data) - 1)),
                         data[Len(data)])

AlphaVantageFormat(payload, from, to) ==
  SortByTimestamp(AlphaVantageFilter(payload, DateParse(from), DateParse(to)))

getHistoricalDataFinnhub ==
  /\ series.source = "none"
  /\ \E payload \in FinnhubPayloads :
       /\ upstream' = payload
       /\ series' = [source |-> "finnhub", data |-> FinnhubFormat(payload)]
  /\ UNCHANGED <<routerVars, optVars, indVars>>

getHistoricalDataAlphaVantage ==
  /\ series.source = "none"
  /\ \E payload \in AlphaVantagePayloads, from \in WindowDates,
        to \in WindowDates :
       /\ upstream' = payload
       /\ series' = [source |-> "alphavantage",
                     data |-> AlphaVantageFormat(payload, from, to)]
  /\ UNCHANGED <<routerVars, optVars, indVars>>

getHistoricalDataPolygon ==
  /\ series.source = "none"
  /\ \E payload \in PolygonPayloads :
       /\ upstream' = payload
       /\ series' = [source |-> "polygon", data |-> PolygonFormat(payload)]
  /\ UNCHANGED <<routerVars, optVars, indVars>>

----------------------------------------------------------------------------
(* Options adapters.  Each turns one upstream payload into a chain; of a    *)
(* contract the strike and the last price are kept (contractName, change,   *)
(* volume, openInterest and impliedVolatility are copied the same way).     *)

MaxEntries == 3      \* entries of an options payload

ExpiryDates == {"2024-01-19", "2024-02-16"}

\* Finnhub: one entry per expiry, with its calls and its puts
FinnhubContracts == [strike : {100}, lastPrice : {5}]

FinnhubChainPayloads ==
  SeqsUpTo([expirationDate : ExpiryDates,
            CALL : SeqsUpTo(FinnhubContracts, 1),
            PUT : SeqsUpTo(FinnhubContracts, 1)], MaxEntries)

\* Polygon: one result per contract
PolygonChainPayloads ==
  SeqsUpTo([expiration_date : ExpiryDates, contract_type : {"call", "PUT"},
            strike_price : {100}], MaxEntries)

\* contract_type.toLowerCase()
ToLowerCase(str) ==
  CASE str = "CALL" -> "call"
    [] str = "PUT" -> "put"
    [] OTHER -> str

RECURSIVE Flatten(_)
\* flatMap: the concatenation of the mapped arrays
Flatten(seqs) ==
  IF seqs = <<>> THEN <<>> ELSE Head(seqs) \o Flatten(Tail(seqs))

RECURSIVE SetSpread(_)
\* [...new Set(array)]: the distinct values in order of first occurrence
SetSpread(array) ==
  IF array = <<>> THEN <<>>
  ELSE LET front == SetSpread(SubSeq(array, 1, Len(array) - 1))
           last == array[Len(array)]
       IN IF \E i \in DOMAIN front : front[i] = last
            THEN front
            ELSE Append(front, last)

NullNumber == [null |-> TRUE, n |-> 0]

FinnhubOption(type, contract, expiry) ==
  [type |-> type, strike |-> contract.strike,
   expiration |-> expiry.expirationDate,
   lastPrice |-> [null |-> FALSE, n |-> contract.lastPrice]]

PolygonOption(item) ==
  [type |-> ToLowerCase(item.contract_type), strike |-> item.strike_price,
   expiration |-> item.expiration_date, lastPrice |-> NullNumber]

FinnhubChainFormat(symbol, data) ==
  [symbol |-> symbol,
   expirationDates |-> [i \in DOMAIN data |-> data[i].expirationDate],
   options |-> Flatten([i \in DOMAIN data |->
                 [c \in DOMAIN data[i].CALL |->
                    FinnhubOption("call", data[i].CALL[c], data[i])]
                 \o [p \in DOMAIN data[i].PUT |->
                       FinnhubOption("put", data[i].PUT[p], data[i])]]),
   source |-> "finnhub"]

PolygonChainFormat(symbol, results) ==
  [symbol |-> symbol,
   expirationDates |->
     SetSpread([i \in DOMAIN results |-> results[i].expiration_date]),
   options |-> [i \in DOMAIN results |-> PolygonOption(results[i])],
   source |-> "polygon"]

NoChain ==
  [symbol |-> UNDEF, expirationDates |-> <<>>, options |-> <<>>,
   source |-> "none"]

getOptionsChainFinnhub(symbol) ==
  /\ chain.source = "none"
  /\ \E data \in FinnhubChainPayloads :
       /\ upstream' = data
       /\ chain' = FinnhubChainFormat(symbol, data)
  /\ UNCHANGED <<routerVars, series, indVars>>

getOptionsChainPolygon(symbol) ==
  /\ chain.source = "none"
  /\ \E results \in PolygonChainPayloads :
       /\ upstream' = results
       /\ chain' = PolygonChainFormat(symbol, results)
  /\ UNCHANGED <<routerVars, series, indVars>>

----------------------------------------------------------------------------
(* Indicator functions.  A JavaScript number is represented by an exact     *)
(* fraction n/d in lowest terms (rounding is not modelled); null is a       *)
(* value of its own, and arithmetic converts it with ToNumber.              *)

MaxLen == 50         \* length of a closes sequence
MaxPrice == 2        \* closes are drawn from 1..MaxPrice
MaxEmaLen == 4        \* length of a freely chosen price sequence
MaxStep == 1         \* largest change between two prices of a walk
MaxTail == 2         \* closes that differ from the leading value, at the end

Abs(x) == IF x < 0 THEN -x ELSE x

RECURSIVE GCD(_, _)
GCD(a, b) == IF b = 0 THEN a ELSE GCD(b, a % b)

LCM(a, b) == (a \div GCD(a, b)) * b

Rat(n, d) ==
  LET g == GCD(Abs(n), d)
  IN [null |-> FALSE, n |-> n \div g, d |-> d \div g]

JsNull == [null |-> TRUE, n |-> 0, d |-> 1]

\* ToNumber(null) is +0
ToNumber(x) == IF x.null THEN Rat(0, 1) ELSE x

JsAdd(a, b) ==
  LET x == ToNumber(a)
      y == ToNumber(b)
      l == LCM(x.d, y.d)
  IN Rat(x.n * (l \div x.d) + y.n * (l \div y.d), l)

JsSub(a, b) ==
  LET x == ToNumber(a)
      y == ToNumber(b)
      l == LCM(x.d, y.d)
  IN Rat(x.n * (l \div x.d) - y.n * (l \div y.d), l)

JsMul(a, b) ==
  LET x == ToNumber(a)
      y == ToNumber(b)
  IN Rat(x.n * y.n, x.d * y.d)

\* a / b; a zero divisor gives a non-finite value, marked by d = 0
JsDiv(a, b) ==
  LET x == ToNumber(a)
      y == ToNumber(b)
  IN IF y.n = 0
       THEN [null |-> FALSE, n |-> (IF x.n > 0 THEN 1 ELSE IF x.n < 0 THEN -1 ELSE 0),
             d |-> 0]
       ELSE LET g1 == GCD(Abs(x.n), Abs(y.n))
                g2 == GCD(x.d, y.d)
                num == (x.n \div g1) * (y.d \div g2)
                den == (x.d \div g2) * (y.n \div g1)
            IN IF den < 0 THEN Rat(-num, -den) ELSE Rat(num, den)

RECURSIVE SumSeq(_)
SumSeq(s) == IF s = <<>> THEN 0 ELSE Head(s) + SumSeq(Tail(s))

EmaStepUnweighted(price, ema, multiplier) ==
  JsAdd(JsMul(Rat(price, 1), multiplier), ema)

\* ema = (price - ema) * multiplier + ema
EmaStep(price, ema, multiplier) ==
  JsAdd(JsMul(JsSub(Rat(price, 1), ema), multiplier), ema)

RECURSIVE EmaLoop(_, _, _)
\* the value of ema once prices[0..i-1] are consumed (i >= period):
\* let ema = sma; for (i = period; i < prices.length; i++) ema = ...
\* (the previous value is bound by a quantifier so that it is computed once)
EmaLoop(prices, period, i) ==
  IF i = period
    THEN Rat(SumSeq(SubSeq(prices, 1, period)), period)
    ELSE CHOOSE next \in {EmaStep(prices[i], ema, Rat(2, period + 1)) :
                             ema \in {EmaLoop(prices, period, i - 1)}} : TRUE

calculateEMA(prices, period) ==
  IF Len(prices) < period THEN JsNull
  ELSE EmaLoop(prices, period, Len(prices))

calculateMACDWithSignal(prices) ==
  LET ema12 == calculateEMA(prices, 12)
      ema26 == calculateEMA(prices, 26)
      macdLine == JsSub(ema12, ema26)
  IN [called |-> TRUE, macdLine |-> macdLine, signalLine |-> macdLine,
      histogram |-> JsSub(macdLine, macdLine)]

calculateMACD(prices) ==
  LET ema12 == calculateEMA(prices, 12)
      ema26 == calculateEMA(prices, 26)
      macdLine == JsSub(ema12, ema26)
  IN [called |-> TRUE, macdLine |-> macdLine, signalLine |-> JsNull,
      histogram |-> JsNull]

\* changes.push(prices[i] - prices[i - 1])
Changes(prices) ==
  [k \in 1..(Len(prices) - 1) |-> prices[k + 1] - prices[k]]

\* change > 0 ? change : 0
Gain(change) == IF change > 0 THEN change ELSE 0

\* change < 0 ? Math.abs(change) : 0
Loss(change) == IF change < 0 THEN Abs(change) ELSE 0

\* avg = ((avg * (period - 1)) + current) / period
WilderStep(avg, current, period) ==
  JsDiv(JsAdd(JsMul(avg, Rat(period - 1, 1)), Rat(current, 1)),
        Rat(period, 1))

RECURSIVE WilderLoop(_, _, _)
\* the average once xs[0..k-1] are consumed (k >= period): the mean of the
\* first period values, then one smoothing step per further value
WilderLoop(xs, period, k) ==
  IF k = period
    THEN Rat(SumSeq(SubSeq(xs, 1, period)), period)
    ELSE CHOOSE next \in {WilderStep(avg, xs[k], period) :
                             avg \in {WilderLoop(xs, period, k - 1)}} : TRUE

\* rs = avgGain / (avgLoss === 0 ? 0.001 : avgLoss); 100 - (100 / (1 + rs))
RsiValue(avgGain, avgLoss) ==
  LET rs == JsDiv(avgGain,
                  IF avgLoss = Rat(0, 1) THEN Rat(1, 1000) ELSE avgLoss)
  IN JsSub(Rat(100, 1), JsDiv(Rat(100, 1), JsAdd(Rat(1, 1), rs)))

calculateRSILate(prices, period) ==
  IF Len(prices) <= period + 1 THEN JsNull
  ELSE LET changes == Changes(prices)
           gains == [k \in DOMAIN changes |-> Gain(changes[k])]
           losses == [k \in DOMAIN changes |-> Loss(changes[k])]
       IN RsiValue(WilderLoop(gains, period, Len(changes)),
                   WilderLoop(losses, period, Len(changes)))

\* returns rsiValues[rsiValues.length - 1], the value of the last iteration
calculateRSI(prices, period) ==
  IF Len(prices) < period + 1 THEN JsNull
  ELSE LET changes == Changes(prices)
           gains == [k \in DOMAIN changes |-> Gain(changes[k])]
           losses == [k \in DOMAIN changes |-> Loss(changes[k])]
       IN RsiValue(WilderLoop(gains, period, Len(changes)),
                   WilderLoop(losses, period, Len(changes)))

\* the object without fields, {}; called tells whether the function returned
NoIndicators == [called |-> FALSE, fields |-> {}]

calculateIndicatorsBothShort(prices) ==
  IF Len(prices) = 0
    THEN [NoIndicators EXCEPT !.called = TRUE]
    ELSE LET closePrices == [i \in DOMAIN prices |-> prices[i].close]
         IN [called |-> TRUE,
             fields |-> {"rsi", "emaShort", "emaLong", "macd"},
             rsi |-> calculateRSI(closePrices, 14),
             emaShort |-> calculateEMA(closePrices, 12),
             emaLong |-> calculateEMA(closePrices, 12),
             macd |-> calculateMACD(closePrices)]

\* prices: the bars of a series; {} is the record without fields
calculateIndicators(prices) ==
  IF Len(prices) = 0
    THEN [NoIndicators EXCEPT !.called = TRUE]
    ELSE LET closePrices == [i \in DOMAIN prices |-> prices[i].close]
         IN [called |-> TRUE,
             fields |-> {"rsi", "emaShort", "emaLong", "macd"},
             rsi |-> calculateRSI(closePrices, 14),
             emaShort |-> calculateEMA(closePrices, 12),
             emaLong |-> calculateEMA(closePrices, 26),
             macd |-> calculateMACD(closePrices)]

\* n closes: n - j times a, then j times b
Closes(n, a, b, j) == [i \in 1..n |-> IF i <= n - j THEN a ELSE b]

ClosesInputs ==
  {Closes(n, a, b, j) : n \in 0..MaxLen, a \in 1..MaxPrice, b \in 1..MaxPrice,
                        j \in 0..MaxTail}

\* every computation starts from fresh arguments: nothing is kept between calls
IndicatorsIdle ==
  ~macd.called /\ ~emaResult.called /\ ~rsiResult.called /\ ~indicators.called

CalculateMACD ==
  /\ IndicatorsIdle
  /\ \E prices \in ClosesInputs :
       /\ closes' = prices
       /\ macd' = calculateMACD(prices)
  /\ UNCHANGED <<routerVars, histVars, optVars, emaResult, rsiResult, indicators>>

\* the periods calculateEMA is called with (12 and 26 by the service)
EmaPeriods == {2, 3, 12, 26}

\* price sequences around the null threshold of a period
EmaInputs(period) ==
  {Closes(n, a, b, j) : n \in 0..(period + MaxTail), a \in 1..MaxPrice,
                        b \in 1..MaxPrice, j \in 0..MaxTail}
    \cup SeqsUpTo(1..MaxPrice, MaxEmaLen)

CalculateEMA ==
  /\ IndicatorsIdle
  /\ \E period \in EmaPeriods : \E prices \in EmaInputs(period) :
       /\ closes' = prices
       /\ emaResult' = [called |-> TRUE, period |-> period,
                        value |-> calculateEMA(prices, period)]
  /\ UNCHANGED <<routerVars, histVars, optVars, macd, rsiResult, indicators>>

\* the periods calculateRSI is called with (14 by the service)
RsiPeriods == {2, 14}

\* n prices that start at base: the first n - 1 - j changes are s1 (with
\* alternating sign when alt), the last j changes are s2
Walk(n, base, s1, s2, j, alt) ==
  LET change(k) == IF k > n - 1 - j THEN s2
                   ELSE IF alt /\ k % 2 = 0 THEN -s1 ELSE s1
  IN [i \in 1..n |-> base + SumSeq([k \in 1..(i - 1) |-> change(k)])]

\* price sequences around the null threshold of a period: rising, falling,
\* flat and zigzag runs with a tail, and short freely chosen sequences
RsiInputs(period) ==
  {Walk(n, MaxStep * (period + 1 + MaxTail), s1, s2, j, alt) :
     n \in 0..(period + 1 + MaxTail), s1 \in -MaxStep..MaxStep,
     s2 \in -MaxStep..MaxStep, j \in 0..MaxTail, alt \in BOOLEAN}
    \cup SeqsUpTo(1..MaxPrice, MaxEmaLen)

CalculateRSI ==
  /\ IndicatorsIdle
  /\ \E period \in RsiPeriods : \E prices \in RsiInputs(period) :
       /\ closes' = prices
       /\ rsiResult' = [called |-> TRUE, period |-> period,
                        value |-> calculateRSI(prices, period)]
  /\ UNCHANGED <<routerVars, histVars, optVars, macd, emaResult, indicators>>

CalculateIndicators ==
  /\ IndicatorsIdle
  /\ \E prices \in ClosesInputs :
       /\ closes' = prices
       /\ indicators' = calculateIndicators([i \in DOMAIN prices |->
                                               Bar(i, prices[i])])
  /\ UNCHANGED <<routerVars, histVars, optVars, macd, emaResult, rsiResult>>

----------------------------------------------------------------------------
(* Specifications *)

Init ==
  /\ defaultProvider = "finnhub"
  /\ setResult = [arg |-> "finnhub", outcome |-> "set"]
  /\ reqs = [r \in ReqIds |-> IdleReq]
  /\ upstream = <<>>
  /\ series = [source |-> "none", data |-> <<>>]
  /\ closes = <<>>
  /\ chain = NoChain
  /\ macd = [called |-> FALSE]
  /\ emaResult = [called |-> FALSE]
  /\ rsiResult = [called |-> FALSE]
  /\ indicators = NoIndicators

Handle(r) ==
  \/ ControllerGetQuote(r)
  \/ ControllerGetCompanyProfile(r)
  \/ ControllerGetHistoricalData(r)
  \/ ControllerGetOptionsChain(r)
  \/ ControllerCalculateIndicators(r)

Next ==
  \/ SetDefaultProvider
  \/ \E r \in ReqIds : Handle(r)
  \/ \E r \in ReqIds : UpstreamResolve(r)
  \/ \E r \in ReqIds : UpstreamReject(r)

Spec == Init /\ [][Next]_vars

\* the default provider is static configuration: it is set only while no
\* request is in flight
NextQuiescent ==
  \/ ConfigureDefaultProvider
  \/ \E r \in ReqIds : Handle(r)
  \/ \E r \in ReqIds : UpstreamResolve(r)
  \/ \E r \in ReqIds : UpstreamReject(r)

SpecQuiescent == Init /\ [][NextQuiescent]_vars

NextHistorical ==
  \/ getHistoricalDataFinnhub
  \/ getHistoricalDataAlphaVantage
  \/ getHistoricalDataPolygon

SpecHistorical == Init /\ [][NextHistorical]_vars

NextOptions ==
  \/ \E symbol \in {v \in Symbols : ~Falsy(v)} : getOptionsChainFinnhub(symbol)
  \/ \E symbol \in {v \in Symbols : ~Falsy(v)} : getOptionsChainPolygon(symbol)

SpecOptions == Init /\ [][NextOptions]_vars

NextIndicators ==
  \/ CalculateMACD
  \/ CalculateEMA
  \/ CalculateRSI
  \/ CalculateIndicators

SpecIndicators == Init /\ [][NextIndicators]_vars

----------------------------------------------------------------------------
(* Router and controller properties *)

Started(q) == q.pc # "idle"
Validated(q) == q.svcCalls > 0
Op(q) == ServiceOp(q.handler)
PrimaryFailed(q) == Len(q.calls) >= 1 /\ q.calls[1].outcome = "fail"
PrimaryOk(q) == Len(q.calls) >= 1 /\ q.calls[1].outcome = "ok"
Answered(q, status, source, call) ==
  /\ q.pc = "done"
  /\ Len(q.responses) = 1
  /\ q.responses[1].status = status
  /\ q.responses[1].source = source
  /\ q.responses[1].call = call

\* C1: when the primary adapter call of a request succeeds, whatever the
\* provider argument and the default provider, that call is the only
\* adapter call of the request and the answer is its result.
C1_PrimarySuccessIsFinal ==
  \A r \in ReqIds :
    PrimaryOk(reqs[r]) =>
      /\ Len(reqs[r].calls) = 1
      /\ Answered(reqs[r], 200, reqs[r].calls[1].adapter, 1)

C1_Witness ==
  \E r \in ReqIds :
    /\ PrimaryOk(reqs[r])
    /\ reqs[r].pc = "done"
    /\ reqs[r].qprovider = "polygon"
    /\ defaultProvider = "alphavantage"

BothFailed(q) ==
  /\ Len(q.calls) = 2
  /\ q.calls[1].outcome = "fail"
  /\ q.calls[2].outcome = "fail"
  /\ q.pc = "done"

\* C4 as stated: when the primary call and the single fallback call both
\* fail, the error propagated is the primary call's.
C4_Original ==
  \A r \in ReqIds :
    BothFailed(reqs[r]) => Answered(reqs[r], 500, "", 1)

\* C4 amended: when the primary call and the single fallback call both fail,
\* the error propagated is the fallback call's; the primary call's error is
\* only logged.
C4_FallbackErrorPropagates ==
  \A r \in ReqIds :
    BothFailed(reqs[r]) => Answered(reqs[r], 500, "", 2)

C4_Witness ==
  \E r \in ReqIds :
    /\ BothFailed(reqs[r])
    /\ reqs[r].handler = "options"
    /\ reqs[r].calls[2].adapter = "polygon"

C6_Original ==
  \A r \in ReqIds :
    LET q == reqs[r] IN
    Validated(q) =>
      q.calls[1].adapter =
        (IF q.qprovider \in Capable(Op(q)) THEN q.qprovider ELSE q.dflt0)

MissingParams(q) ==
  \/ Falsy(q.symbol)
  \/ (q.handler \in {"historical", "indicators"}
        /\ (Falsy(q.from) \/ Falsy(q.to)))

\* C8: on each of the five handlers a request without symbol, and on
\* historical and indicators a request without from or without to, gets
\* exactly one response, of status 400 with a message, and makes no service
\* call and no adapter call.
C8_ValidationFirst ==
  \A r \in ReqIds :
    LET q == reqs[r] IN
    (Started(q) /\ MissingParams(q)) =>
      /\ q.pc = "done"
      /\ Len(q.responses) = 1
      /\ q.responses[1].status = 400
      /\ q.responses[1].message # ""
      /\ q.svcCalls = 0
      /\ q.calls = <<>>

C8_Witness ==
  \E r \in ReqIds :
    /\ reqs[r].handler = "indicators"
    /\ ~Falsy(reqs[r].symbol)
    /\ Falsy(reqs[r].to)
    /\ reqs[r].pc = "done"
    /\ reqs[r].responses[1].status = 400

----------------------------------------------------------------------------
(* Adapter and indicator properties *)

\* C9 as stated: for each historical adapter and every upstream bar list,
\* the returned data is sorted strictly ascending by timestamp, so no two
\* bars share a timestamp.
C9_Original ==
  \A i, j \in DOMAIN series.data :
    i < j => series.data[i].timestamp < series.data[j].timestamp

\* C10 as stated: macdLine is EMA(closes, 12) - EMA(closes, 26) when both are
\* non-null and null when either is null.
C10_Original ==
  macd.called =>
    LET ema12 == calculateEMA(closes, 12)
        ema26 == calculateEMA(closes, 26)
    IN IF ema12.null \/ ema26.null
         THEN macd.macdLine.null
         ELSE macd.macdLine = JsSub(ema12, ema26)

\* C11: for every input sequence, the empty one included, calculateMACD
\* returns signalLine = null and histogram = null, and so does the macd field
\* of every non-empty calculateIndicators result.
C11_SignalAndHistogramNull ==
  /\ macd.called => (macd.signalLine.null /\ macd.histogram.null)
  /\ (indicators.called /\ Len(closes) > 0) =>
       /\ "macd" \in indicators.fields
       /\ indicators.macd.signalLine.null
       /\ indicators.macd.histogram.null

C11_Witness ==
  /\ indicators.called
  /\ Len(closes) = 50
  /\ ~indicators.macd.macdLine.null
  /\ indicators.macd.signalLine.null

\* the EMA of prices in closed form: with k = Len(prices) - period further
\* values, ema * period * (period+1)^k =
\*   (period-1)^k * sum(seed) + period * SUM_i 2*(period-1)^(k-i)*(period+1)^(i-1)*v_i
EmaClosedForm(prices, period) ==
  LET k == Len(prices) - period
      seed == SumSeq(SubSeq(prices, 1, period))
      tail == [i \in 1..k |-> 2 * (period - 1)^(k - i) * (period + 1)^(i - 1)
                                * prices[period + i]]
  IN Rat((period - 1)^k * seed + period * SumSeq(tail),
         period * (period + 1)^k)

\* C12: calculateEMA(values, period) returns null exactly when there are fewer
\* than period values; with exactly period values it returns their arithmetic
\* mean; every further value v updates ema' = (v - ema) * 2/(period+1) + ema
\* in input order, and the final ema is returned.
C12_EmaSeedAndRecurrence ==
  emaResult.called =>
    LET period == emaResult.period
        n == Len(closes)
    IN /\ emaResult.value.null <=> n < period
       /\ n = period => emaResult.value = Rat(SumSeq(closes), period)
       /\ n >= period => emaResult.value = EmaClosedForm(closes, period)

C12_Witness ==
  /\ emaResult.called
  /\ emaResult.period = 12
  /\ Len(closes) = 14
  /\ closes[13] # closes[14]
  /\ ~emaResult.value.null
  /\ emaResult.value # Rat(SumSeq(closes), 14)

\* the changes between consecutive closes
ClosesChanges == [k \in 1..(Len(closes) - 1) |-> closes[k + 1] - closes[k]]

C13_AllLoss ==
  /\ rsiResult.called /\ rsiResult.period = 14 /\ Len(closes) = 17
  /\ \A k \in DOMAIN ClosesChanges : ClosesChanges[k] < 0
  /\ rsiResult.value = Rat(0, 1)

C13_AllZero ==
  /\ rsiResult.called /\ rsiResult.period = 14 /\ Len(closes) = 17
  /\ \A k \in DOMAIN ClosesChanges : ClosesChanges[k] = 0
  /\ rsiResult.value = Rat(0, 1)

C13_Mixed ==
  /\ rsiResult.called /\ rsiResult.period = 14 /\ Len(closes) = 17
  /\ rsiResult.value.n > 0
  /\ rsiResult.value.d > 1
  /\ rsiResult.value.n < 50 * rsiResult.value.d

\* C14: calculateIndicators returns {} for an empty series and, for n >= 1
\* bars, exactly the fields rsi, emaShort, emaLong, macd, with rsi null iff
\* n < 15, emaShort null iff n < 12, emaLong null iff n < 26; 50 bars give a
\* non-null rsi, emaShort, emaLong and macdLine.
C14_IndicatorFields ==
  indicators.called =>
    LET n == Len(closes)
    IN /\ n = 0 => indicators.fields = {}
       /\ n >= 1 =>
            /\ indicators.fields = {"rsi", "emaShort", "emaLong", "macd"}
            /\ indicators.rsi.null <=> n < 15
            /\ indicators.emaShort.null <=> n < 12
            /\ indicators.emaLong.null <=> n < 26
       /\ n = 50 => ~indicators.macd.macdLine.null

C14_Witness ==
  /\ indicators.called
  /\ Len(closes) = 50
  /\ closes[49] # closes[50]
  /\ indicators.fields = {"rsi", "emaShort", "emaLong", "macd"}
  /\ ~indicators.rsi.null
  /\ ~indicators.emaShort.null
  /\ ~indicators.emaLong.null

\* below every threshold: one bar gives the four fields, all of them null
C14_OneBar ==
  /\ indicators.called
  /\ Len(closes) = 1
  /\ indicators.rsi.null /\ indicators.emaShort.null /\ indicators.emaLong.null

\* C15 (as stated): for both options adapters and every payload, also one
\* where several entries carry the same expiration date, expirationDates
\* holds each date at most once.
C15_Original ==
  chain.source # "none" => Injective(chain.expirationDates)

\* C16 (as stated): in every execution, also with setDefaultProvider calls
\* interleaved with a request's awaited upstream calls, a request makes at
\* most two adapter calls (one primary, at most one fallback).
C16_Original ==
  \A r \in ReqIds : Len(reqs[r].calls) <= 2

\* C17: defaultProvider is always one of the three provider ids, initially
\* 'finnhub'; setDefaultProvider with a valid id sets it to that id, with any
\* other value it throws and leaves defaultProvider unchanged; no request
\* operation changes it.
C17_DefaultProviderFrame ==
  /\ defaultProvider = "finnhub"
  /\ [](defaultProvider \in Providers)
  /\ [][/\ reqs' # reqs => defaultProvider' = defaultProvider
        /\ setResult' # setResult =>
             IF setResult'.arg \in Providers
               THEN /\ setResult'.outcome = "set"
                    /\ defaultProvider' = setResult'.arg
               ELSE /\ setResult'.outcome = "throw"
                    /\ defaultProvider' = defaultProvider
        /\ defaultProvider' # defaultProvider => setResult' # setResult]_vars

C17_Witness ==
  /\ setResult = [arg |-> "yahoo", outcome |-> "throw"]
  /\ defaultProvider = "polygon"
  /\ \E r \in ReqIds : reqs[r].pc = "done" /\ Len(reqs[r].calls) >= 1

====
